---------------------------- MODULE Spec2Model ----------------------------
(***************************************************************************)
(* Model of the LLM observability service (src/main.py): the /chat handler *)
(* with its model calls and its two telemetry sinks, the hallucination-    *)
(* risk heuristic and the self-confidence parser.                          *)
(*                                                                         *)
(* Texts that the code inspects (prompt, completion, confidence reply) are *)
(* sequences of one-character strings, so that lower(), split(), the `in`  *)
(* substring test and the regular expression are computed character by     *)
(* character.  Python floats are modelled as exact rationals [n, d] in     *)
(* lowest terms with d > 0.                                                *)
(***************************************************************************)
EXTENDS Integers, Sequences, FiniteSets, TLC

(***************************************************************************)
(* Characters and strings                                                  *)
(***************************************************************************)
UpperChars == <<"A","B","C","D","E","F","G","H","I","J","K","L","M",
                "N","O","P","Q","R","S","T","U","V","W","X","Y","Z">>

LowerChars == <<"a","b","c","d","e","f","g","h","i","j","k","l","m",
                "n","o","p","q","r","s","t","u","v","w","x","y","z">>

Digits == <<"0","1","2","3","4","5","6","7","8","9">>

\* str.isspace() for the ASCII characters used here
IsSpace(c) == c \in {" ", "\t", "\n"}

IsDigit(c) == \E i \in 1..10 : Digits[i] = c

DigitVal(c) == (CHOOSE i \in 1..10 : Digits[i] = c) - 1

\* str.lower() on one character
LowerChar(c) ==
    IF \E i \in 1..26 : UpperChars[i] = c
    THEN LowerChars[CHOOSE i \in 1..26 : UpperChars[i] = c]
    ELSE c

\* str.lower()
Lower(s) == [i \in 1..Len(s) |-> LowerChar(s[i])]

\* the Python test `w in s` for strings: w is a contiguous substring of s
Contains(s, w) ==
    \E i \in 1..(Len(s) - Len(w) + 1) : SubSeq(s, i, i + Len(w) - 1) = w

\* len(s.split()): the number of maximal runs of non-whitespace characters
WordCount(s) ==
    Cardinality({i \in 1..Len(s) :
                    /\ ~IsSpace(s[i])
                    /\ (i = 1 \/ IsSpace(s[i-1]))})

\* str.strip(): drop leading and trailing whitespace
Strip(s) ==
    LET keep == {i \in 1..Len(s) : ~IsSpace(s[i])}
    IN  IF keep = {} THEN <<>>
        ELSE SubSeq(s, CHOOSE i \in keep : \A j \in keep : i <= j,
                       CHOOSE i \in keep : \A j \in keep : j <= i)

(***************************************************************************)
(* Exact rationals standing for Python floats                              *)
(***************************************************************************)
RECURSIVE GCD(_, _)
GCD(a, b) == IF b = 0 THEN a ELSE GCD(b, a % b)

Abs(x) == IF x < 0 THEN -x ELSE x

Rat(n, d) ==
    LET g == GCD(Abs(n), d)
    IN  [n |-> n \div g, d |-> d \div g]

RAdd(a, b) == Rat(a.n * b.d + b.n * a.d, a.d * b.d)
RSub(a, b) == Rat(a.n * b.d - b.n * a.d, a.d * b.d)
RMul(a, b) == Rat(a.n * b.n, a.d * b.d)
RLe(a, b)  == a.n * b.d <= b.n * a.d
RLt(a, b)  == a.n * b.d < b.n * a.d
RMin(a, b) == IF RLe(a, b) THEN a ELSE b

Zero == Rat(0, 1)
One  == Rat(1, 1)

RECURSIVE Pow10(_)
Pow10(k) == IF k = 0 THEN 1 ELSE 10 * Pow10(k - 1)

\* round(x, ndigits) for x >= 0: the nearest multiple of 10^-ndigits, an
\* exact tie going to the even neighbour
Round(x, ndigits) ==
    LET scaled == x.n * Pow10(ndigits)
        q      == scaled \div x.d
        r2     == 2 * (scaled % x.d)
        up     == r2 > x.d \/ (r2 = x.d /\ q % 2 = 1)
    IN  Rat(IF up THEN q + 1 ELSE q, Pow10(ndigits))

(***************************************************************************)
(* calculate_hallucination_risk  (src/main.py:47-73)                       *)
(***************************************************************************)
hedging_words ==
    << <<"m","i","g","h","t">>,
       <<"p","o","s","s","i","b","l","y">>,
       <<"p","e","r","h","a","p","s">>,
       <<"m","a","y","b","e">>,
       <<"i"," ","t","h","i","n","k">>,
       <<"c","o","u","l","d"," ","b","e">>,
       <<"i","t"," ","s","e","e","m","s">>,
       <<"l","i","k","e","l","y">>,
       <<"p","r","o","b","a","b","l","y">> >>

\* every occurrence of a phrase counted, not every phrase
hedging_count_occurrences(response_text) ==
    LET text_lower == Lower(response_text)
    IN  Cardinality({<<k, i>> \in (1..Len(hedging_words)) \X (1..Len(text_lower)) :
                        /\ i + Len(hedging_words[k]) - 1 <= Len(text_lower)
                        /\ SubSeq(text_lower, i, i + Len(hedging_words[k]) - 1)
                              = hedging_words[k]})

\* sum(1 for word in hedging_words if word in text_lower)
hedging_count(response_text) ==
    LET text_lower == Lower(response_text)
    IN  Cardinality({k \in 1..Len(hedging_words) :
                        Contains(text_lower, hedging_words[k])})

\* a sign slip: the confidence itself taken as the risk
confidence_risk_flipped(confidence) == confidence

\* confidence_risk = 1.0 - confidence
confidence_risk(confidence) == RSub(One, confidence)

\* the cap at 5 phrases forgotten
hedging_risk_uncapped(count) == Rat(count, 5)

\* hedging_risk = min(hedging_count / 5.0, 1.0)
hedging_risk(count) == RMin(Rat(count, 5), One)

\* verbosity_ratio = response_length / max(prompt_length, 1)
verbosity_ratio(response_length, prompt_length) ==
    Rat(response_length, IF prompt_length > 1 THEN prompt_length ELSE 1)

\* the ratio taken the wrong way round: prompt words per response word
verbosity_risk_inverted(response_text, prompt) ==
    RMin(RMul(verbosity_ratio(WordCount(prompt), WordCount(response_text)),
              Rat(1, 50)), One)

\* verbosity_risk = min(verbosity_ratio / 50.0, 1.0)
verbosity_risk(response_text, prompt) ==
    RMin(RMul(verbosity_ratio(WordCount(response_text), WordCount(prompt)),
              Rat(1, 50)), One)

calculate_hallucination_risk(response_text, prompt, confidence) ==
    LET r0 == Zero
        r1 == RAdd(r0, RMul(confidence_risk(confidence), Rat(4, 10)))
        r2 == RAdd(r1, RMul(hedging_risk(hedging_count(response_text)),
                            Rat(3, 10)))
        r3 == RAdd(r2, RMul(verbosity_risk(response_text, prompt),
                            Rat(3, 10)))
    IN  RMin(r3, One)

(***************************************************************************)
(* get_self_confidence  (src/main.py:76-98)                                *)
(***************************************************************************)
NoMatch == <<"no match">>

\* the last index of the run of digits of s that starts at j
RECURSIVE DigitRunEnd(_, _)
DigitRunEnd(s, j) ==
    IF j + 1 <= Len(s) /\ IsDigit(s[j+1]) THEN DigitRunEnd(s, j + 1) ELSE j

\* the alternatives in another order, r'0|1|0?\.\d+|1\.0': the bare digit
\* wins over the decimal that starts with it
MatchAtDigitFirst(s, i) ==
    IF s[i] = "0" THEN <<"0">>
    ELSE IF s[i] = "1" THEN <<"1">>
    ELSE IF s[i] = "." /\ i + 1 <= Len(s) /\ IsDigit(s[i+1])
    THEN SubSeq(s, i, DigitRunEnd(s, i + 1))
    ELSE NoMatch

\* the four alternatives of r'0?\.\d+|1\.0|0|1' tried in order at index i;
\* the result is the matched text, or NoMatch
MatchAt(s, i) ==
    IF /\ s[i] = "0" /\ i + 2 <= Len(s)
       /\ s[i+1] = "." /\ IsDigit(s[i+2])
    THEN SubSeq(s, i, DigitRunEnd(s, i + 2))
    ELSE IF s[i] = "." /\ i + 1 <= Len(s) /\ IsDigit(s[i+1])
    THEN SubSeq(s, i, DigitRunEnd(s, i + 1))
    ELSE IF i + 2 <= Len(s) /\ SubSeq(s, i, i + 2) = <<"1", ".", "0">>
    THEN <<"1", ".", "0">>
    ELSE IF s[i] = "0" THEN <<"0">>
    ELSE IF s[i] = "1" THEN <<"1">>
    ELSE NoMatch

\* re.search: the match at the leftmost index that has one
re_search(s) ==
    LET hits == {i \in 1..Len(s) : MatchAt(s, i) # NoMatch}
    IN  IF hits = {} THEN NoMatch
        ELSE MatchAt(s, CHOOSE i \in hits : \A j \in hits : i <= j)

\* int() of a run of digits
RECURSIVE DigitsToInt(_)
DigitsToInt(t) ==
    IF t = <<>> THEN 0
    ELSE 10 * DigitsToInt(SubSeq(t, 1, Len(t) - 1)) + DigitVal(t[Len(t)])

\* float() of a text of the form digits, .digits or digits.digits
Float(t) ==
    LET dots == {i \in 1..Len(t) : t[i] = "."}
    IN  IF dots = {} THEN Rat(DigitsToInt(t), 1)
        ELSE LET p    == CHOOSE i \in dots : TRUE
                 ip   == SubSeq(t, 1, p - 1)
                 fp   == SubSeq(t, p + 1, Len(t))
             IN  Rat(DigitsToInt(ip) * Pow10(Len(fp)) + DigitsToInt(fp),
                     Pow10(Len(fp)))

Half == Rat(1, 2)

\* a number read whole, digits before the point included: what
\* r'\d*\.?\d+' would extract
RECURSIVE NumberRunEnd(_, _, _)
NumberRunEnd(s, j, seenDot) ==
    IF j + 1 <= Len(s) /\ IsDigit(s[j+1]) THEN NumberRunEnd(s, j + 1, seenDot)
    ELSE IF /\ ~seenDot /\ j + 2 <= Len(s)
            /\ s[j+1] = "." /\ IsDigit(s[j+2])
    THEN NumberRunEnd(s, j + 2, TRUE)
    ELSE j

parse_confidence_whole_number(confidence_text) ==
    LET starts == {i \in 1..Len(confidence_text) :
                      IsDigit(confidence_text[i])}
    IN  IF starts = {} THEN Half
        ELSE LET i == CHOOSE a \in starts : \A b \in starts : a <= b
             IN  Float(SubSeq(confidence_text, i,
                              NumberRunEnd(confidence_text, i, FALSE)))

\* lines 90-95: strip, search, float(match.group()) or the default 0.5
parse_confidence(text) ==
    LET confidence_text == Strip(text)
        match           == re_search(confidence_text)
    IN  IF match # NoMatch THEN Float(match) ELSE Half

\* the except clause forgotten: the failed model call leaves no value
get_self_confidence_unguarded(reply) ==
    IF reply.kind = "raise" THEN [raised |-> TRUE, value |-> Half]
    ELSE [raised |-> FALSE, value |-> parse_confidence(reply.text)]

\* lines 88-98.  reply is what model.generate_content does for the
\* confidence prompt: [kind |-> "raise", ...] or [kind |-> "ok", text |-> ..].
\* raised says whether an exception leaves the function.
get_self_confidence(reply) ==
    IF reply.kind = "raise" THEN [raised |-> FALSE, value |-> Half]
    ELSE [raised |-> FALSE, value |-> parse_confidence(reply.text)]

(***************************************************************************)
(* Configuration  (src/main.py:23-40) and hash_prompt  (src/main.py:42-44) *)
(***************************************************************************)
MODEL_NAME   == "gemini-2.5-flash"
SERVICE_NAME == "llm-observability-service"
ENVIRONMENT  == "dev"

\* prompt.encode(): the printable ASCII characters in the order of their
\* code points, the first of them (the space) being 32; the backslash and
\* the backtick are spelled out
CodePoints ==
    <<" ", "!", "\"", "#", "$", "%", "&", "'", "(", ")", "*", "+",
      ",", "-", ".", "/", "0", "1", "2", "3", "4", "5", "6", "7",
      "8", "9", ":", ";", "<", "=", ">", "?", "@", "A", "B", "C",
      "D", "E", "F", "G", "H", "I", "J", "K", "L", "M", "N", "O",
      "P", "Q", "R", "S", "T", "U", "V", "W", "X", "Y", "Z", "[",
      "backslash", "]", "^", "_", "backtick", "a", "b", "c", "d", "e", "f", "g",
      "h", "i", "j", "k", "l", "m", "n", "o", "p", "q", "r", "s",
      "t", "u", "v", "w", "x", "y", "z", "{", "|", "}", "~">>

CharCode(c) ==
    IF \E i \in 1..Len(CodePoints) : CodePoints[i] = c
    THEN 31 + (CHOOSE i \in 1..Len(CodePoints) : CodePoints[i] = c)
    ELSE 0

HashBits == 16

RECURSIVE Pow2(_)
Pow2(k) == IF k = 0 THEN 1 ELSE 2 * Pow2(k - 1)

\* hashlib.sha256(prompt.encode()).hexdigest()[:16].  SHA-256 is replaced by
\* a polynomial digest truncated to HashBits bits: deterministic, a function
\* of the characters only, and not invertible to the text.
RECURSIVE hash_prompt(_)
hash_prompt(prompt) ==
    IF prompt = <<>> THEN 7
    ELSE (31 * hash_prompt(SubSeq(prompt, 1, Len(prompt) - 1))
          + CharCode(prompt[Len(prompt)])) % Pow2(HashBits)

(***************************************************************************)
(* The inputs of the /chat handler                                         *)
(***************************************************************************)
PromptHi     == <<"H","i">>
PromptFrance == <<"W","h","a","t"," ","i","s"," ","t","h","e"," ","c","a","p","i","t","a","l"," ","o","f"," ","F","r","a","n","c","e","?">>

TextParis  == <<"P","a","r","i","s",".">>
TextHedged == <<"P","e","r","h","a","p","s"," ","i","t"," ","m","i","g","h","t"," ","p","o","s","s","i","b","l","y"," ","b","e",","," ","m","a","y","b","e"," ","L","i","k","e","l","y",".">>

\* the POST bodies: no JSON at all, a JSON object without "prompt", and
\* objects with an empty or a non-empty prompt
Bodies ==
    {[json |-> FALSE, has_prompt |-> FALSE, prompt |-> <<>>],
     [json |-> TRUE,  has_prompt |-> FALSE, prompt |-> <<>>]}
    \cup {[json |-> TRUE, has_prompt |-> TRUE, prompt |-> p] :
             p \in {<<>>, PromptHi, PromptFrance}}

\* request.get_json() without a JSON body raises 415 (Flask >= 2.1) or
\* returns None, and then data.get raises AttributeError
ParseErrors == {"415 Unsupported Media Type",
                "'NoneType' object has no attribute 'get'"}

\* what model.generate_content(prompt) and response.text can do: the call
\* raises, the call returns a response whose .text raises, or the call
\* returns a response with a text
GenerationOutcomes ==
    {[kind |-> "raise", msg |-> "503 Service Unavailable", text |-> <<>>,
      has_usage |-> FALSE, total_token_count |-> 0],
     [kind |-> "no_text", msg |-> "Response has no text", text |-> <<>>,
      has_usage |-> TRUE, total_token_count |-> 4],
     [kind |-> "ok", msg |-> "", text |-> TextParis,
      has_usage |-> TRUE, total_token_count |-> 9],
     [kind |-> "ok", msg |-> "", text |-> TextHedged,
      has_usage |-> FALSE, total_token_count |-> 0]}

\* what the model can do with the confidence prompt
ConfidenceOutcomes ==
    {[kind |-> "raise", msg |-> "429 Resource exhausted", text |-> <<>>]}
    \cup {[kind |-> "ok", msg |-> "", text |-> t] :
             t \in {<<"0",".","8">>, <<"v","e","r","y"," ","c","o","n","f","i","d","e","n","t">>, <<"1",".","5">>, <<"0",".","7","7","7","7">>}}

Requests == {"r1", "r2"}

\* the values uuid.uuid4() can produce
UUIDs == {"uuid-a", "uuid-b"}

\* the clock advances in ticks of TickPerMs to the millisecond
TickPerMs == 8
MaxClock  == 2

(***************************************************************************)
(* The telemetry sinks  (src/main.py:101-180, 272-286)                     *)
(***************************************************************************)
\* time.time() in seconds, and int(time.time())
Seconds(clock) == Rat(clock, TickPerMs * 1000)
IntSeconds(clock) == clock \div (TickPerMs * 1000)

\* (t1 - t0) * 1000
ElapsedMs(t0, t1) == RMul(RSub(Seconds(t1), Seconds(t0)), Rat(1000, 1))

\* str(value) of a number
Str(v) == <<"str", v>>

\* the keys of log_data and error_data whose values are int or float
NumericKeys == {"latency_ms", "hallucination_risk", "self_confidence",
                "answer_length"}

\* lines 107-144: the five series of the success payload
MetricsPayload(metrics_data, clock) ==
    LET tags   == << <<"model_name", metrics_data.model_name>>,
                     <<"service", SERVICE_NAME>>,
                     <<"env", ENVIRONMENT>> >>
        names  == << <<"llm.request.latency_ms", "latency_ms">>,
                     <<"llm.self_confidence", "self_confidence">>,
                     <<"llm.hallucination_risk", "hallucination_risk">>,
                     <<"llm.answer_length", "answer_length">>,
                     <<"llm.token.count", "token_count">> >>
    IN  [k \in 1..5 |->
            [metric    |-> names[k][1],
             timestamp |-> IntSeconds(clock),
             value     |-> metrics_data[names[k][2]],
             resources |-> << [name |-> SERVICE_NAME, type |-> "service"] >>,
             tags      |-> tags]]

\* the try/except forgotten: a failing submit_metrics leaves the function
send_metrics_to_datadog_unguarded(metrics_data, clock, sink_ok) ==
    [attempt |-> [sink |-> "metrics",
                  payload |-> MetricsPayload(metrics_data, clock),
                  delivered |-> sink_ok],
     raised  |-> ~sink_ok]

\* lines 101-148.  sink_ok is whether submit_metrics succeeds; raised is
\* whether an exception leaves the function.
send_metrics_to_datadog(metrics_data, clock, sink_ok) ==
    [attempt |-> [sink |-> "metrics",
                  payload |-> MetricsPayload(metrics_data, clock),
                  delivered |-> sink_ok],
     raised  |-> FALSE]

\* lines 158-175: numbers turned into strings, the fixed fields added
LogPayload(log_data) ==
    [ddsource |-> "llm-observability",
     ddtags   |-> << <<"env", ENVIRONMENT>>, <<"service", SERVICE_NAME>> >>,
     hostname |-> SERVICE_NAME,
     message  |-> <<"LLM request completed: request_id=",
                    log_data.request_id>>,
     service  |-> SERVICE_NAME,
     fields   |-> [k \in DOMAIN log_data |->
                      IF k \in NumericKeys THEN Str(log_data[k])
                      ELSE log_data[k]]]

\* the try/except forgotten: a failing submit_log leaves the function
send_logs_to_datadog_unguarded(log_data, sink_ok) ==
    [attempt |-> [sink |-> "logs", payload |-> LogPayload(log_data),
                  delivered |-> sink_ok],
     raised  |-> ~sink_ok]

\* lines 152-180
send_logs_to_datadog(log_data, sink_ok) ==
    [attempt |-> [sink |-> "logs", payload |-> LogPayload(log_data),
                  delivered |-> sink_ok],
     raised  |-> FALSE]

\* lines 273-286: the error counter, its failure passed over in silence
send_error_metric(clock, sink_ok) ==
    [attempt |-> [sink |-> "metrics",
                  payload |-> << [metric    |-> "llm.error.count",
                                  timestamp |-> IntSeconds(clock),
                                  value     |-> One,
                                  tags      |-> << <<"service", SERVICE_NAME>>,
                                                   <<"env", ENVIRONMENT>> >>] >>,
                  delivered |-> sink_ok],
     raised  |-> FALSE]

(***************************************************************************)
(* The /chat handler  (src/main.py:189-288)                                *)
(***************************************************************************)
VARIABLES
    pc,       \* pc[r]: where the handler of request r stands
    frame,    \* frame[r]: the local variables of the handler of r
    calls,    \* calls[r]: the calls r made to model.generate_content
    sent,     \* sent[r]: the dispatches r attempted, in order
    http,     \* http[r]: the status and body returned to the caller
    issued,   \* the uuids handed out so far
    now,      \* the clock, in ticks
    probe     \* the pure function under test, its arguments and its result

vars == <<pc, frame, calls, sent, http, issued, now, probe>>

\* The locals before their assignment; the code reads none of them before
\* it is assigned, the values here are placeholders of the right shape.
Frame0 ==
    [request |-> [json |-> FALSE, has_prompt |-> FALSE, prompt |-> <<>>],
     request_id |-> "", start_time |-> 0, prompt |-> <<>>,
     llm_start |-> 0, llm_end |-> 0,
     response |-> [has_usage |-> FALSE, total_token_count |-> 0],
     response_text |-> <<>>,
     confidence_score |-> Zero, hallucination_risk |-> Zero,
     latency_ms |-> Zero, answer_length |-> 0, token_count |-> 0,
     metrics_data |-> [model_name |-> ""], log_data |-> [request_id |-> ""],
     end_time |-> 0, e |-> "", error_time |-> 0,
     error_data |-> [request_id |-> ""]]

NoResponse == [status |-> 0, body |-> [none |-> TRUE]]

\* f"""You previously answered this question: ...""" (lines 81-86)
confidence_prompt(original_prompt, original_response) ==
    <<"You previously answered this question:", original_prompt,
      "Your answer:", original_response>>

InitChat ==
    /\ pc = [r \in Requests |-> "idle"]
    /\ frame = [r \in Requests |-> Frame0]
    /\ calls = [r \in Requests |-> <<>>]
    /\ sent = [r \in Requests |-> <<>>]
    /\ http = [r \in Requests |-> NoResponse]
    /\ issued = {}
    /\ now = 0

Init ==
    /\ InitChat
    /\ probe = [fn |-> "none"]

\* the request id kept in one process-wide variable, set by the first
\* request and read by the later ones
EnterSharedId(r, body, id) ==
    [frame[r] EXCEPT !.request = body,
                     !.request_id = IF issued = {} THEN id
                                    ELSE CHOOSE x \in issued : TRUE,
                     !.start_time = now]

\* lines 192-193: the request id and the start time
Enter(r, body, id) ==
    [frame[r] EXCEPT !.request = body, !.request_id = id, !.start_time = now]

\* lines 197-198 raise: no JSON body
ReceiveNoJson(r, body, id, msg) ==
    /\ pc[r] = "idle" /\ id \notin issued
    /\ ~body.json
    /\ frame' = [frame EXCEPT ![r] = [Enter(r, body, id) EXCEPT !.e = msg]]
    /\ pc' = [pc EXCEPT ![r] = "failed"]
    /\ issued' = issued \cup {id}
    /\ UNCHANGED <<calls, sent, http, now, probe>>

\* the test of line 200 forgotten: the empty prompt goes on to the model
ReceiveNoPromptUnchecked(r, body, id) ==
    /\ pc[r] = "idle" /\ id \notin issued
    /\ body.json
    /\ (IF body.has_prompt THEN body.prompt ELSE <<>>) = <<>>
    /\ frame' = [frame EXCEPT ![r] = Enter(r, body, id)]
    /\ pc' = [pc EXCEPT ![r] = "generating"]
    /\ issued' = issued \cup {id}
    /\ UNCHANGED <<calls, sent, http, now, probe>>

\* lines 198-201: data.get('prompt', '') is empty
ReceiveNoPrompt(r, body, id) ==
    /\ pc[r] = "idle" /\ id \notin issued
    /\ body.json
    /\ (IF body.has_prompt THEN body.prompt ELSE <<>>) = <<>>
    /\ frame' = [frame EXCEPT ![r] = Enter(r, body, id)]
    /\ http' = [http EXCEPT ![r] =
                  [status |-> 400, body |-> [error |-> "prompt is required"]]]
    /\ pc' = [pc EXCEPT ![r] = "done"]
    /\ issued' = issued \cup {id}
    /\ UNCHANGED <<calls, sent, now, probe>>

\* lines 198-200: a prompt to work on
ReceivePrompt(r, body, id) ==
    /\ pc[r] = "idle" /\ id \notin issued
    /\ body.json /\ body.has_prompt /\ body.prompt # <<>>
    /\ frame' = [frame EXCEPT ![r] =
                   [Enter(r, body, id) EXCEPT !.prompt = body.prompt]]
    /\ pc' = [pc EXCEPT ![r] = "generating"]
    /\ issued' = issued \cup {id}
    /\ UNCHANGED <<calls, sent, http, now, probe>>

\* lines 204-205: the primary call is issued
CallGenerate(r) ==
    /\ pc[r] = "generating"
    /\ frame' = [frame EXCEPT ![r].llm_start = now]
    /\ calls' = [calls EXCEPT ![r] =
                    Append(@, [purpose |-> "generate",
                               prompt |-> frame[r].prompt,
                               returned |-> "pending",
                               msg |-> "", text |-> <<>>])]
    /\ pc' = [pc EXCEPT ![r] = "awaiting"]
    /\ UNCHANGED <<sent, http, issued, now, probe>>

\* lines 205-208: the primary call returns or raises
ReturnGenerate(r, out) ==
    /\ pc[r] = "awaiting"
    /\ IF out.kind = "raise"
       THEN /\ frame' = [frame EXCEPT ![r].e = out.msg]
            /\ pc' = [pc EXCEPT ![r] = "failed"]
       ELSE IF out.kind = "no_text"
       THEN /\ frame' = [frame EXCEPT
                           ![r].llm_end = now,
                           ![r].response =
                               [has_usage |-> out.has_usage,
                                total_token_count |-> out.total_token_count],
                           ![r].e = out.msg]
            /\ pc' = [pc EXCEPT ![r] = "failed"]
       ELSE /\ frame' = [frame EXCEPT
                           ![r].llm_end = now,
                           ![r].response =
                               [has_usage |-> out.has_usage,
                                total_token_count |-> out.total_token_count],
                           ![r].response_text = out.text]
            /\ pc' = [pc EXCEPT ![r] = "estimating"]
    /\ calls' = [calls EXCEPT ![r][Len(calls[r])] =
                    [@ EXCEPT !.returned = out.kind, !.msg = out.msg,
                              !.text = out.text]]
    /\ UNCHANGED <<sent, http, issued, now, probe>>

\* a failed confidence call tried a second time
EstimateConfidenceRetried(r, reply) ==
    /\ pc[r] = "estimating"
    /\ LET call == [purpose |-> "confidence",
                    prompt |-> confidence_prompt(
                        frame[r].prompt, frame[r].response_text),
                    returned |-> reply.kind,
                    msg |-> reply.msg, text |-> reply.text]
       IN  calls' = [calls EXCEPT ![r] =
                        IF reply.kind = "raise"
                        THEN Append(Append(@, call), call)
                        ELSE Append(@, call)]
    /\ frame' = [frame EXCEPT ![r].confidence_score =
                                  get_self_confidence(reply).value]
    /\ pc' = [pc EXCEPT ![r] = "scoring"]
    /\ UNCHANGED <<sent, http, issued, now, probe>>

\* line 211: the secondary call and the parse of its reply
EstimateConfidence(r, reply) ==
    /\ pc[r] = "estimating"
    /\ calls' = [calls EXCEPT ![r] =
                    Append(@, [purpose |-> "confidence",
                               prompt |-> confidence_prompt(
                                   frame[r].prompt, frame[r].response_text),
                               returned |-> reply.kind,
                               msg |-> reply.msg, text |-> reply.text])]
    /\ LET res == get_self_confidence(reply)
       IN  IF res.raised
           THEN /\ frame' = [frame EXCEPT ![r].e = reply.msg]
                /\ pc' = [pc EXCEPT ![r] = "failed"]
           ELSE /\ frame' = [frame EXCEPT ![r].confidence_score = res.value]
                /\ pc' = [pc EXCEPT ![r] = "scoring"]
    /\ UNCHANGED <<sent, http, issued, now, probe>>

\* lines 224-231
build_metrics_data(f) ==
    [model_name         |-> MODEL_NAME,
     latency_ms         |-> f.latency_ms,
     self_confidence    |-> f.confidence_score,
     hallucination_risk |-> f.hallucination_risk,
     answer_length      |-> f.answer_length,
     token_count        |-> f.token_count]

\* the request id lost on the way into the record
build_log_data_unknown_id(f) ==
    [request_id         |-> "unknown",
     prompt_hash        |-> hash_prompt(f.prompt),
     model_name         |-> MODEL_NAME,
     latency_ms         |-> f.latency_ms,
     hallucination_risk |-> f.hallucination_risk,
     self_confidence    |-> f.confidence_score,
     answer_length      |-> f.answer_length,
     status             |-> "success"]

\* lines 233-242
build_log_data(f) ==
    [request_id         |-> f.request_id,
     prompt_hash        |-> hash_prompt(f.prompt),
     model_name         |-> MODEL_NAME,
     latency_ms         |-> f.latency_ms,
     hallucination_risk |-> f.hallucination_risk,
     self_confidence    |-> f.confidence_score,
     answer_length      |-> f.answer_length,
     status             |-> "success"]

\* the fields of the success record defaulted into the error record
build_error_data_defaulted(f, clock) ==
    [request_id         |-> f.request_id,
     error              |-> f.e,
     latency_ms         |-> ElapsedMs(f.start_time, clock),
     hallucination_risk |-> f.hallucination_risk,
     self_confidence    |-> f.confidence_score,
     status             |-> "error"]

\* lines 264-269
build_error_data(f, clock) ==
    [request_id |-> f.request_id,
     error      |-> f.e,
     latency_ms |-> ElapsedMs(f.start_time, clock),
     status     |-> "error"]

\* lines 250-259
success_response(f, clock) ==
    [status |-> 200,
     body   |-> [request_id |-> f.request_id,
                 response   |-> f.response_text,
                 metadata   |->
                    [latency_ms |-> Round(ElapsedMs(f.start_time, clock), 2),
                     confidence |-> Round(f.confidence_score, 3),
                     hallucination_risk |-> Round(f.hallucination_risk, 3),
                     model      |-> MODEL_NAME]]]

\* the error envelope written like the one of line 201, without the id
error_response_without_id(f) ==
    [status |-> 500, body |-> [error |-> f.e]]

\* line 288
error_response(f) ==
    [status |-> 500,
     body   |-> [error |-> f.e, request_id |-> f.request_id]]

\* what Flask answers when an exception leaves the view function
UnhandledResponse ==
    [status |-> 500, body |-> [html |-> "Internal Server Error"]]

\* the generation timed from the receipt of the request
telemetry_latency_from_receipt(f) == ElapsedMs(f.start_time, f.llm_end)

\* line 219: latency_ms = (llm_end - llm_start) * 1000
telemetry_latency_ms(f) == ElapsedMs(f.llm_start, f.llm_end)

\* a debugging aid left in: the answer put into the log record
ScoreLoggingAnswer(r) ==
    /\ pc[r] = "scoring"
    /\ LET f0 == frame[r]
           f1 == [f0 EXCEPT
                    !.hallucination_risk =
                        calculate_hallucination_risk(
                            f0.response_text, f0.prompt, f0.confidence_score),
                    !.latency_ms = telemetry_latency_ms(f0),
                    !.answer_length = WordCount(f0.response_text),
                    !.token_count =
                        IF f0.response.has_usage
                        THEN f0.response.total_token_count ELSE 0]
           data == build_log_data(f1)
       IN  frame' = [frame EXCEPT ![r] =
                       [f1 EXCEPT !.metrics_data = build_metrics_data(f1),
                                  !.log_data =
                                      [k \in DOMAIN data \cup {"answer"} |->
                                          IF k = "answer" THEN f1.response_text
                                          ELSE data[k]]]]
    /\ pc' = [pc EXCEPT ![r] = "emit_metrics"]
    /\ UNCHANGED <<calls, sent, http, issued, now, probe>>

\* lines 214-242: the risk, the metrics and the two telemetry records
Score(r) ==
    /\ pc[r] = "scoring"
    /\ LET f0 == frame[r]
           f1 == [f0 EXCEPT
                    !.hallucination_risk =
                        calculate_hallucination_risk(
                            f0.response_text, f0.prompt, f0.confidence_score),
                    !.latency_ms = telemetry_latency_ms(f0),
                    !.answer_length = WordCount(f0.response_text),
                    !.token_count =
                        IF f0.response.has_usage
                        THEN f0.response.total_token_count ELSE 0]
       IN  frame' = [frame EXCEPT ![r] =
                       [f1 EXCEPT !.metrics_data = build_metrics_data(f1),
                                  !.log_data = build_log_data(f1)]]
    /\ pc' = [pc EXCEPT ![r] = "emit_metrics"]
    /\ UNCHANGED <<calls, sent, http, issued, now, probe>>

\* the log dispatch made to depend on the metrics dispatch
SendMetricsGating(r, sink_ok) ==
    /\ pc[r] = "emit_metrics"
    /\ LET res == send_metrics_to_datadog(frame[r].metrics_data, now, sink_ok)
       IN  sent' = [sent EXCEPT ![r] = Append(@, res.attempt)]
    /\ pc' = [pc EXCEPT ![r] = IF sink_ok THEN "emit_logs" ELSE "responding"]
    /\ UNCHANGED <<frame, calls, http, issued, now, probe>>

\* line 245
SendMetrics(r, sink_ok) ==
    /\ pc[r] = "emit_metrics"
    /\ LET res == send_metrics_to_datadog(frame[r].metrics_data, now, sink_ok)
       IN  /\ sent' = [sent EXCEPT ![r] = Append(@, res.attempt)]
           /\ IF res.raised
              THEN /\ frame' = [frame EXCEPT ![r].e = "metrics sink failed"]
                   /\ pc' = [pc EXCEPT ![r] = "failed"]
              ELSE /\ pc' = [pc EXCEPT ![r] = "emit_logs"]
                   /\ UNCHANGED frame
    /\ UNCHANGED <<calls, http, issued, now, probe>>

\* line 246
SendLogs(r, sink_ok) ==
    /\ pc[r] = "emit_logs"
    /\ LET res == send_logs_to_datadog(frame[r].log_data, sink_ok)
       IN  /\ sent' = [sent EXCEPT ![r] = Append(@, res.attempt)]
           /\ IF res.raised
              THEN /\ frame' = [frame EXCEPT ![r].e = "log sink failed"]
                   /\ pc' = [pc EXCEPT ![r] = "failed"]
              ELSE /\ pc' = [pc EXCEPT ![r] = "responding"]
                   /\ UNCHANGED frame
    /\ UNCHANGED <<calls, http, issued, now, probe>>

\* lines 249-259
Respond(r) ==
    /\ pc[r] = "responding"
    /\ frame' = [frame EXCEPT ![r].end_time = now]
    /\ http' = [http EXCEPT ![r] = success_response(frame[r], now)]
    /\ pc' = [pc EXCEPT ![r] = "done"]
    /\ UNCHANGED <<calls, sent, issued, now, probe>>

\* lines 261-270: the except clause builds error_data and logs it
HandleError(r, sink_ok) ==
    /\ pc[r] = "failed"
    /\ LET data == build_error_data(frame[r], now)
           res  == send_logs_to_datadog(data, sink_ok)
       IN  /\ frame' = [frame EXCEPT ![r].error_time = now,
                                     ![r].error_data = data]
           /\ sent' = [sent EXCEPT ![r] = Append(@, res.attempt)]
           /\ IF res.raised
              THEN /\ http' = [http EXCEPT ![r] = UnhandledResponse]
                   /\ pc' = [pc EXCEPT ![r] = "done"]
              ELSE /\ pc' = [pc EXCEPT ![r] = "error_metric"]
                   /\ UNCHANGED http
    /\ UNCHANGED <<calls, issued, now, probe>>

\* lines 272-288: the error counter, then the error envelope
SendErrorMetric(r, sink_ok) ==
    /\ pc[r] = "error_metric"
    /\ LET res == send_error_metric(now, sink_ok)
       IN  /\ sent' = [sent EXCEPT ![r] = Append(@, res.attempt)]
           /\ http' = [http EXCEPT ![r] =
                          IF res.raised THEN UnhandledResponse
                          ELSE error_response(frame[r])]
    /\ pc' = [pc EXCEPT ![r] = "done"]
    /\ UNCHANGED <<frame, calls, issued, now, probe>>

\* time passes while a request is being handled
Tick ==
    /\ now < MaxClock
    /\ \E r \in Requests : pc[r] \notin {"idle", "done"}
    /\ now' = now + 1
    /\ UNCHANGED <<pc, frame, calls, sent, http, issued, probe>>

\* the steps of the handler of request r
Handle(r) ==
    \/ \E b \in Bodies, id \in UUIDs, msg \in ParseErrors :
          ReceiveNoJson(r, b, id, msg)
    \/ \E b \in Bodies, id \in UUIDs : ReceiveNoPrompt(r, b, id)
    \/ \E b \in Bodies, id \in UUIDs : ReceivePrompt(r, b, id)
    \/ CallGenerate(r)
    \/ \E out \in GenerationOutcomes : ReturnGenerate(r, out)
    \/ \E reply \in ConfidenceOutcomes : EstimateConfidence(r, reply)
    \/ Score(r)
    \/ \E ok \in BOOLEAN : SendMetrics(r, ok)
    \/ \E ok \in BOOLEAN : SendLogs(r, ok)
    \/ Respond(r)
    \/ \E ok \in BOOLEAN : HandleError(r, ok)
    \/ \E ok \in BOOLEAN : SendErrorMetric(r, ok)

\* one request in flight
Next == Handle("r1") \/ Tick

Spec == Init /\ [][Next]_vars

(***************************************************************************)
(* get_self_confidence on its own: every reply over a small alphabet       *)
(***************************************************************************)
MaxReplyLen == 4

ReplyAlphabet == {"0", "1", "7", ".", "x", " "}

ReplyTexts ==
    UNION {[1..k -> ReplyAlphabet] : k \in 0..MaxReplyLen}
    \cup {<<"0",".","8">>, <<"I","'","d"," ","s","a","y"," ","a","b","o","u","t"," ","0",".","6","5"," ","c","o","n","f","i","d","e","n","t">>, <<"v","e","r","y"," ","c","o","n","f","i","d","e","n","t">>, <<"9","5","%">>, <<"2",".","7","5">>, <<"0",".","9"," ","o","r"," ","1",".","0">>}

ReplyOutcomes ==
    {[kind |-> "raise", msg |-> "429 Resource exhausted", text |-> <<>>]}
    \cup {[kind |-> "ok", msg |-> "", text |-> t] : t \in ReplyTexts}

InitConf ==
    /\ InitChat
    /\ probe \in {[fn |-> "get_self_confidence", reply |-> o, done |-> FALSE,
                   out |-> [raised |-> FALSE, value |-> Zero]] :
                     o \in ReplyOutcomes}

ApplyConfidence ==
    /\ probe.fn = "get_self_confidence" /\ ~probe.done
    /\ probe' = [probe EXCEPT !.done = TRUE,
                              !.out = get_self_confidence(probe.reply)]
    /\ UNCHANGED <<pc, frame, calls, sent, http, issued, now>>

SpecConf == InitConf /\ [][ApplyConfidence]_vars

(***************************************************************************)
(* calculate_hallucination_risk on its own.  The texts are built from a    *)
(* window of the hedging vocabulary and filler words, so that the number   *)
(* of phrases and of words in a text is known by construction.             *)
(***************************************************************************)
MaxWords == 51

WordTotals == {0, 1, 3, 6, 12, 19, 20, 21, 49, 50, MaxWords}

RECURSIVE JoinWords(_)
JoinWords(ws) ==
    IF ws = <<>> THEN <<>>
    ELSE IF Len(ws) = 1 THEN ws[1]
    ELSE ws[1] \o <<" ">> \o JoinWords(Tail(ws))

Fillers(n) == [i \in 1..n |-> <<"x">>]

\* the phrases a..b of the vocabulary
Window(a, b) == [i \in 1..(b - a + 1) |-> hedging_words[a + i - 1]]

\* the number of words of the phrases a..b ("i think", "could be" and
\* "it seems" are two words each)
WindowWords(a, b) ==
    (b - a + 1) + Cardinality({k \in a..b : k \in {5, 6, 7}})

\* windows that start at the first phrase or end at the last one
Windows ==
    {<<1, b>> : b \in 0..9} \cup {<<a, 9>> : a \in 2..9}

BuiltTexts ==
    {[h    |-> win[2] - win[1] + 1,
      w    |-> total,
      text |-> JoinWords(Window(win[1], win[2])
                         \o Fillers(total - WindowWords(win[1], win[2])))] :
        <<win, total>> \in
            {x \in Windows \X WordTotals : x[2] >= WindowWords(x[1][1], x[1][2])}}

\* upper case, repetition, phrases inside longer words, other whitespace
SpecialTexts ==
    {[h |-> 5, w |-> 5, text |-> <<"M","I","G","H","T"," ","P","o","s","s","i","b","l","y"," ","P","e","r","H","a","p","s"," ","m","a","y","b","E"," ","L","I","K","E","L","Y">>],
     [h |-> 1, w |-> 4, text |-> <<"m","i","g","h","t"," ","m","i","g","h","t"," ","M","i","g","h","t"," ","m","i","g","h","t">>],
     [h |-> 2, w |-> 2, text |-> <<"m","i","g","h","t","y"," ","u","n","l","i","k","e","l","y">>],
     [h |-> 0, w |-> 2, text |-> <<"i","\n","t","h","i","n","k">>],
     [h |-> 0, w |-> 0, text |-> <<" ", "\n">>],
     [h |-> 0, w |-> 1, text |-> TextParis]}

RiskTexts == BuiltTexts \cup SpecialTexts

RiskPrompts ==
    {[pw |-> 0, text |-> <<>>],
     [pw |-> 1, text |-> PromptHi],
     [pw |-> 2, text |-> <<" ", "H", "i", "\t", "H", "i">>],
     [pw |-> 6, text |-> PromptFrance]}

RiskConfidences == {Zero, Rat(3, 10), Half, Rat(9, 10), One}

InitRisk ==
    /\ InitChat
    /\ probe \in {[fn |-> "calculate_hallucination_risk",
                   response |-> t, prompt |-> q, confidence |-> c,
                   done |-> FALSE, out |-> Zero] :
                     t \in RiskTexts, q \in RiskPrompts, c \in RiskConfidences}

ApplyRisk ==
    /\ probe.fn = "calculate_hallucination_risk" /\ ~probe.done
    /\ probe' = [probe EXCEPT
                    !.done = TRUE,
                    !.out = calculate_hallucination_risk(
                                probe.response.text, probe.prompt.text,
                                probe.confidence)]
    /\ UNCHANGED <<pc, frame, calls, sent, http, issued, now>>

SpecRisk == InitRisk /\ [][ApplyRisk]_vars

(***************************************************************************)
(* Properties of calculate_hallucination_risk  (checked under SpecRisk)    *)
(***************************************************************************)
RiskDone == probe.fn = "calculate_hallucination_risk" /\ probe.done

AtLeastOne(n) == IF n > 1 THEN n ELSE 1

\* every signal at its maximum: confidence 0, five phrases or more, fifty
\* response words or more to each prompt word
AllSignalsMax ==
    /\ probe.confidence = Zero
    /\ probe.response.h >= 5
    /\ probe.response.w >= 50 * AtLeastOne(probe.prompt.pw)

\* every signal at its minimum: confidence 1, no phrase, no word
AllSignalsMin ==
    /\ probe.confidence = One
    /\ probe.response.h = 0
    /\ probe.response.w = 0

\* C4: for a confidence in [0,1] the risk lies in [0,1]; it is exactly 1
\* when confidence is 0 with at least 5 hedging phrases and a word ratio of
\* at least 50, and exactly 0 when confidence is 1 with no hedging phrase
\* and no word in the response.
C4_RiskInUnitInterval ==
    RiskDone =>
        /\ RLe(Zero, probe.out) /\ RLe(probe.out, One)
        /\ AllSignalsMax => probe.out = One
        /\ AllSignalsMin => probe.out = Zero

C4_Witness == RiskDone /\ AllSignalsMax /\ probe.out = One

\* the risk of every input of SpecRisk
RiskOf ==
    [t \in RiskTexts, q \in RiskPrompts, c \in RiskConfidences |->
        calculate_hallucination_risk(t.text, q.text, c)]

\* the word ratio of (w2, pw2) is at least that of (w1, pw1)
RatioAtLeast(w2, pw2, w1, pw1) ==
    w2 * AtLeastOne(pw1) >= w1 * AtLeastOne(pw2)

\* C5: the risk never goes down when the confidence is lowered, when more
\* hedging phrases are matched, or when the response/prompt word ratio
\* grows, the other two signals being the same.
C5_RiskMonotone ==
    RiskDone =>
        /\ \A c2 \in RiskConfidences :
              RLe(c2, probe.confidence) =>
                  RLe(probe.out, RiskOf[probe.response, probe.prompt, c2])
        /\ \A t2 \in RiskTexts :
              (t2.w = probe.response.w /\ t2.h >= probe.response.h) =>
                  RLe(probe.out, RiskOf[t2, probe.prompt, probe.confidence])
        /\ \A t2 \in RiskTexts, q2 \in RiskPrompts :
              (/\ t2.h = probe.response.h
               /\ RatioAtLeast(t2.w, q2.pw,
                               probe.response.w, probe.prompt.pw)) =>
                  RLe(probe.out, RiskOf[t2, q2, probe.confidence])

\* a computed risk that each of the three signals can still raise
C5_Witness ==
    /\ RiskDone
    /\ \E c2 \in RiskConfidences :
          RLt(probe.out, RiskOf[probe.response, probe.prompt, c2])
    /\ \E t2 \in RiskTexts :
          /\ t2.w = probe.response.w /\ t2.h > probe.response.h
          /\ RLt(probe.out, RiskOf[t2, probe.prompt, probe.confidence])
    /\ \E t2 \in RiskTexts, q2 \in RiskPrompts :
          /\ t2.h = probe.response.h
          /\ RLt(probe.out, RiskOf[t2, q2, probe.confidence])

HedgedLowConfidence ==
    RiskDone /\ probe.confidence = Rat(3, 10) /\ probe.response.h >= 5

\* C6 as stated: confidence 0.3 and five hedging phrases or more give a
\* risk above 0.7, whatever the prompt.
C6_AsStated ==
    HedgedLowConfidence => RLt(Rat(7, 10), probe.out)

\* C6: with confidence 0.3 and at least 5 hedging phrases the risk is at
\* least 0.58, and it is above 0.7 exactly when the response has more than
\* 20 words to each prompt word.
C6_RiskOfHedgedAnswer ==
    HedgedLowConfidence =>
        /\ RLe(Rat(58, 100), probe.out)
        /\ RLt(Rat(7, 10), probe.out) <=>
              probe.response.w > 20 * AtLeastOne(probe.prompt.pw)

C6_Witness ==
    /\ HedgedLowConfidence
    /\ probe.response.w > 20 * AtLeastOne(probe.prompt.pw)
    /\ RLt(Rat(7, 10), probe.out)

(***************************************************************************)
(* Properties of get_self_confidence  (checked under SpecConf)             *)
(***************************************************************************)
ConfDone == probe.fn = "get_self_confidence" /\ probe.done

\* C9: whatever the model replies to the confidence prompt, the value
\* get_self_confidence returns lies in [0,1].
C9_ConfidenceInUnitInterval ==
    ConfDone =>
        /\ ~probe.out.raised
        /\ RLe(Zero, probe.out.value) /\ RLe(probe.out.value, One)

\* the reply "2.75", a number above 1, read as .75
C9_Witness ==
    /\ ConfDone
    /\ probe.reply.kind = "ok"
    /\ probe.reply.text = <<"2", ".", "7", "5">>
    /\ probe.out.value = Rat(3, 4)

(***************************************************************************)
(* Properties of the /chat handler  (checked under Spec)                   *)
(***************************************************************************)
Done(r) == pc[r] = "done"

\* what the primary call of r did: "none" while it has not returned
PrimaryOutcome(r) ==
    IF calls[r] = <<>> THEN "none" ELSE calls[r][1].returned

\* what the confidence call of r did
SecondaryOutcome(r) ==
    IF Len(calls[r]) < 2 THEN "none" ELSE calls[r][2].returned

SinkFailures(r) == {i \in 1..Len(sent[r]) : ~sent[r][i].delivered}

LogEntries(r) == {i \in 1..Len(sent[r]) : sent[r][i].sink = "logs"}

MetricPayloads(r) == {i \in 1..Len(sent[r]) : sent[r][i].sink = "metrics"}

\* C1: whichever of the two sinks fail, the caller gets the status and the
\* body it gets when both succeed: 200 with the answer and its scores when
\* the primary call returned, 500 with the error envelope when it raised.
C1_SinkFailureInvisible ==
    \A r \in Requests :
        (Done(r) /\ sent[r] # <<>>) =>
            IF PrimaryOutcome(r) = "ok"
            THEN /\ http[r].status = 200
                 /\ http[r].body =
                      [request_id |-> frame[r].request_id,
                       response   |-> calls[r][1].text,
                       metadata   |->
                         [latency_ms |->
                              Round(ElapsedMs(frame[r].start_time,
                                              frame[r].end_time), 2),
                          confidence |-> Round(frame[r].confidence_score, 3),
                          hallucination_risk |->
                              Round(frame[r].hallucination_risk, 3),
                          model |-> MODEL_NAME]]
            ELSE /\ http[r].status = 500
                 /\ http[r].body = [error |-> frame[r].e,
                                    request_id |-> frame[r].request_id]

\* both sinks failed and the caller still got the answer
C1_Witness ==
    \E r \in Requests :
        /\ Done(r) /\ http[r].status = 200
        /\ Len(sent[r]) = 2 /\ SinkFailures(r) = {1, 2}

EmptyPrompt(r) ==
    /\ pc[r] # "idle"
    /\ frame[r].request.json /\ frame[r].request.has_prompt
    /\ frame[r].request.prompt = <<>>

\* C2: a request whose prompt is the empty string is rejected with an
\* input error; the model is never called for it and nothing is dispatched
\* to either sink.
C2_EmptyPromptRejected ==
    \A r \in Requests :
        EmptyPrompt(r) =>
            /\ Done(r)
            /\ http[r].status = 400
            /\ "error" \in DOMAIN http[r].body
            /\ calls[r] = <<>>
            /\ sent[r] = <<>>

C2_Witness ==
    \E r \in Requests : EmptyPrompt(r) /\ Done(r) /\ http[r].status = 400

\* the confidence call of r raised, or its reply has no numeric token
ConfidenceUnavailable(r) ==
    \/ SecondaryOutcome(r) = "raise"
    \/ /\ SecondaryOutcome(r) = "ok"
       /\ \A i \in 1..Len(calls[r][2].text) :
             ~IsDigit(calls[r][2].text[i])

\* C3: when the confidence call raises or its reply has no numeric token,
\* the request still succeeds: status 200, confidence 0.5, the risk of
\* confidence 0.5, success telemetry and no error telemetry.
C3_ConfidenceFailureAbsorbed ==
    \A r \in Requests :
        (Done(r) /\ ConfidenceUnavailable(r)) =>
            /\ http[r].status = 200
            /\ http[r].body.metadata.confidence = Half
            /\ http[r].body.metadata.hallucination_risk =
                  Round(calculate_hallucination_risk(
                            calls[r][1].text, frame[r].request.prompt, Half), 3)
            /\ Len(sent[r]) = 2
            /\ sent[r][1].sink = "metrics" /\ Len(sent[r][1].payload) = 5
            /\ sent[r][1].payload[2].value = Half
            /\ sent[r][2].sink = "logs"
            /\ sent[r][2].payload.fields.status = "success"
            /\ sent[r][2].payload.fields.self_confidence = Str(Half)

\* the confidence call raised and the request succeeded
C3_Witness ==
    \E r \in Requests :
        /\ Done(r) /\ SecondaryOutcome(r) = "raise"
        /\ http[r].status = 200
        /\ http[r].body.metadata.confidence = Half

\* C7: for a request that passed input validation, the request_id of the
\* log entry is the request_id of the response, on the success and on the
\* failure path, and the request_id of a request never changes.
C7_LogCarriesRequestId ==
    /\ [](\A r \in Requests :
            (Done(r) /\ http[r].status # 400) =>
                /\ LogEntries(r) # {}
                /\ \A i \in LogEntries(r) :
                      /\ sent[r][i].payload.fields.request_id
                            = http[r].body.request_id
                      /\ sent[r][i].payload.fields.request_id
                            = frame[r].request_id)
    /\ [][\A r \in Requests :
            pc[r] # "idle" => frame'[r].request_id = frame[r].request_id]_vars

\* a success whose log entry carries the id of the response
C7_Witness ==
    \E r \in Requests :
        /\ Done(r) /\ http[r].status = 200
        /\ \E i \in LogEntries(r) :
              /\ sent[r][i].payload.fields.request_id
                    = http[r].body.request_id
              /\ http[r].body.request_id \in UUIDs

\* C8 as stated: every failure response, the input rejection included,
\* carries the error text and the request_id of the request.
C8_AsStated ==
    \A r \in Requests :
        (Done(r) /\ http[r].status >= 400) =>
            /\ "error" \in DOMAIN http[r].body
            /\ "request_id" \in DOMAIN http[r].body
            /\ http[r].body.request_id = frame[r].request_id

\* C10: when the primary call raises, or the text of its response cannot
\* be read, the caller gets status 500 with the
\* message of the exception; one log entry is dispatched with request_id,
\* that message, the latency up to the failure and status=error and no
\* other field, then one error counter of value 1.0 tagged by service and
\* environment only.
C10_FailureTelemetry ==
    \A r \in Requests :
        (Done(r) /\ PrimaryOutcome(r) \in {"raise", "no_text"}) =>
            /\ http[r].status = 500
            /\ http[r].body = [error |-> calls[r][1].msg,
                               request_id |-> frame[r].request_id]
            /\ Len(sent[r]) = 2
            /\ sent[r][1].sink = "logs"
            /\ sent[r][1].payload.fields =
                  [request_id |-> frame[r].request_id,
                   error      |-> calls[r][1].msg,
                   latency_ms |-> Str(ElapsedMs(frame[r].start_time,
                                                frame[r].error_time)),
                   status     |-> "error"]
            /\ sent[r][2].sink = "metrics"
            /\ Len(sent[r][2].payload) = 1
            /\ sent[r][2].payload[1].metric = "llm.error.count"
            /\ sent[r][2].payload[1].value = One
            /\ sent[r][2].payload[1].tags =
                  << <<"service", SERVICE_NAME>>, <<"env", ENVIRONMENT>> >>

\* the primary call raised after some time and the failure was reported
C10_Witness ==
    \E r \in Requests :
        /\ Done(r) /\ PrimaryOutcome(r) = "raise"
        /\ http[r].status = 500
        /\ frame[r].error_time > frame[r].start_time
        /\ Len(sent[r]) = 2

Succeeded(r) == Done(r) /\ http[r].status = 200

\* the latency_ms the success telemetry of r carries (first metric series)
TelemetryLatency(r) == sent[r][1].payload[1].value

\* the time from the receipt of r to the building of its response
RequestDuration(r) == ElapsedMs(frame[r].start_time, frame[r].end_time)

\* the two latencies as the code computes them: telemetry is the time of
\* the primary call alone, in the metric and in the log entry; the envelope
\* is the time of the whole request rounded to two decimals
LatenciesAsComputed(r) ==
    /\ TelemetryLatency(r) = ElapsedMs(frame[r].llm_start, frame[r].llm_end)
    /\ sent[r][2].payload.fields.latency_ms = Str(TelemetryLatency(r))
    /\ http[r].body.metadata.latency_ms = Round(RequestDuration(r), 2)

\* C11 as stated: the telemetry latency is the time of the primary call,
\* the envelope latency the time of the whole request, and the telemetry
\* latency never exceeds the envelope latency.
C11_AsStated ==
    \A r \in Requests :
        Succeeded(r) =>
            /\ LatenciesAsComputed(r)
            /\ RLe(TelemetryLatency(r), http[r].body.metadata.latency_ms)

\* C11: the telemetry latency is the time of the primary call alone and
\* never exceeds the time of the whole request; the envelope latency is the
\* time of the whole request rounded to two decimals, so it falls below the
\* telemetry latency by at most the rounding, 0.005 ms.
C11_Latencies ==
    \A r \in Requests :
        Succeeded(r) =>
            /\ LatenciesAsComputed(r)
            /\ RLe(TelemetryLatency(r), RequestDuration(r))
            /\ RLe(RSub(TelemetryLatency(r),
                        http[r].body.metadata.latency_ms), Rat(5, 1000))

\* time passed before the primary call, during it and after it
C11_Witness ==
    \E r \in Requests :
        /\ Succeeded(r)
        /\ frame[r].start_time < frame[r].llm_start
        /\ frame[r].llm_start < frame[r].llm_end
        /\ RLt(TelemetryLatency(r), http[r].body.metadata.latency_ms)

\* r came without a prompt: no JSON object, or an object without the field
MissingPrompt(r) ==
    /\ pc[r] # "idle"
    /\ ~frame[r].request.json \/ ~frame[r].request.has_prompt

\* C12 as stated: a request without a prompt, the field absent or no JSON
\* object at all, is answered with an input error; the model is not called
\* and nothing is dispatched to either sink.
C12_AsStated ==
    \A r \in Requests :
        MissingPrompt(r) =>
            /\ calls[r] = <<>>
            /\ sent[r] = <<>>
            /\ Done(r) => http[r].status = 400

\* the order of the steps of one request: receipt, primary call, its
\* return, confidence call, scoring, metrics, log, response; or, from a
\* failure, error log, error counter and error response
StepOrder ==
    {<<"idle", "generating">>, <<"idle", "done">>, <<"idle", "failed">>,
     <<"generating", "awaiting">>,
     <<"awaiting", "estimating">>, <<"awaiting", "failed">>,
     <<"estimating", "scoring">>,
     <<"scoring", "emit_metrics">>,
     <<"emit_metrics", "emit_logs">>,
     <<"emit_logs", "responding">>,
     <<"responding", "done">>,
     <<"failed", "error_metric">>,
     <<"error_metric", "done">>}

\* C13: the steps of a request come in the order generate, confidence,
\* scoring, dispatch, response; the confidence call is issued only after
\* the primary call returned a text, the model is called at most twice (once
\* to generate, at most once for the confidence), and never for the
\* confidence when the generation failed.
C13_StepsInOrder ==
    /\ [](\A r \in Requests :
            /\ Len(calls[r]) <= 2
            /\ calls[r] # <<>> => calls[r][1].purpose = "generate"
            /\ Len(calls[r]) = 2 =>
                  /\ calls[r][2].purpose = "confidence"
                  /\ calls[r][1].returned = "ok"
            /\ PrimaryOutcome(r) \in {"raise", "no_text"} =>
                  Len(calls[r]) = 1
            /\ (PrimaryOutcome(r) = "ok" /\ sent[r] # <<>>) =>
                  /\ Len(calls[r]) = 2
                  /\ sent[r][1].payload[3].value =
                        calculate_hallucination_risk(
                            calls[r][1].text, frame[r].request.prompt,
                            frame[r].confidence_score)
            /\ http[r].status = 200 => Len(sent[r]) = 2)
    /\ [][\A r \in Requests :
            pc'[r] # pc[r] => <<pc[r], pc'[r]>> \in StepOrder]_vars

\* a request that went through every step, its confidence call failing
C13_Witness ==
    \E r \in Requests :
        /\ Succeeded(r)
        /\ Len(calls[r]) = 2 /\ calls[r][2].returned = "raise"
        /\ Len(sent[r]) = 2

\* the success telemetry: five series, then the log entry of a success
SuccessTelemetry(r) ==
    /\ sent[r][1].sink = "metrics" /\ Len(sent[r][1].payload) = 5
    /\ sent[r][2].sink = "logs"
    /\ sent[r][2].payload.fields.status = "success"

\* the failure telemetry: the log entry of an error, then the error counter
FailureTelemetry(r) ==
    /\ sent[r][1].sink = "logs"
    /\ sent[r][1].payload.fields.status = "error"
    /\ sent[r][2].sink = "metrics" /\ Len(sent[r][2].payload) = 1
    /\ sent[r][2].payload[1].metric = "llm.error.count"

\* C14: a request that is not rejected for its prompt attempts exactly one
\* dispatch to the log sink and exactly one to the metrics sink before it
\* responds: the success entry with the five series, or the error entry
\* with the error counter, never both and never neither.
C14_OneDispatchPerSink ==
    \A r \in Requests :
        /\ Len(sent[r]) <= 2
        /\ (http[r] # NoResponse /\ http[r].status # 400) =>
              /\ Len(sent[r]) = 2
              /\ Cardinality(LogEntries(r)) = 1
              /\ Cardinality(MetricPayloads(r)) = 1
              /\ IF http[r].status = 200
                 THEN SuccessTelemetry(r) /\ ~FailureTelemetry(r)
                 ELSE FailureTelemetry(r) /\ ~SuccessTelemetry(r)

\* a success whose log dispatch failed: still two dispatches, no error
\* telemetry
C14_Witness ==
    \E r \in Requests :
        /\ Succeeded(r)
        /\ SuccessTelemetry(r)
        /\ ~sent[r][2].delivered

\* C15: within a request a failed metrics dispatch does not keep the log
\* dispatch from being attempted, and a failed log dispatch does not keep
\* the metrics dispatch from being attempted, on the success path and on
\* the failure path.
C15_SinksIndependent ==
    \A r \in Requests :
        /\ (Len(sent[r]) = 1 /\ ~sent[r][1].delivered) =>
              pc[r] = (IF sent[r][1].sink = "metrics"
                       THEN "emit_logs" ELSE "error_metric")
        /\ (Done(r) /\ SinkFailures(r) # {}) =>
              /\ LogEntries(r) # {}
              /\ MetricPayloads(r) # {}
              /\ http[r].status = (IF PrimaryOutcome(r) = "ok"
                                   THEN 200 ELSE 500)

\* the error log failed and the error counter was still delivered
C15_Witness ==
    \E r \in Requests :
        /\ Done(r) /\ http[r].status = 500
        /\ Len(sent[r]) = 2
        /\ sent[r][1].sink = "logs" /\ ~sent[r][1].delivered
        /\ sent[r][2].sink = "metrics" /\ sent[r][2].delivered

\* r got past the check of its prompt, so that it dispatches telemetry
Dispatching(r) == Done(r) /\ http[r].status # 400

\* the series carries the id: as a tag value or under a tag request_id
SeriesCarriesId(series, id) ==
    \E k \in 1..Len(series.tags) :
        series.tags[k][1] = "request_id" \/ series.tags[k][2] = id

ResponseCarriesId(r) ==
    /\ "request_id" \in DOMAIN http[r].body
    /\ http[r].body.request_id = frame[r].request_id

LogCarriesId(r) ==
    \A i \in LogEntries(r) :
        sent[r][i].payload.fields.request_id = frame[r].request_id

\* C16 as stated, for the requests that dispatch telemetry: the request_id
\* is in the response, in the metric series and in the log entry.
C16_AsStated ==
    \A r \in Requests :
        Dispatching(r) =>
            /\ ResponseCarriesId(r)
            /\ LogCarriesId(r)
            /\ \A i \in MetricPayloads(r) :
                  \A k \in 1..Len(sent[r][i].payload) :
                      SeriesCarriesId(sent[r][i].payload[k],
                                      frame[r].request_id)

\* C16: for a request that dispatches telemetry the request_id is in the
\* response and in the log entry; no metric series carries it, their tags
\* being model name, service and environment only.
C16_IdInResponseAndLog ==
    \A r \in Requests :
        Dispatching(r) =>
            /\ frame[r].request_id \in UUIDs
            /\ ResponseCarriesId(r)
            /\ LogEntries(r) # {} /\ LogCarriesId(r)
            /\ MetricPayloads(r) # {}
            /\ \A i \in MetricPayloads(r) :
                  \A k \in 1..Len(sent[r][i].payload) :
                      /\ ~SeriesCarriesId(sent[r][i].payload[k],
                                          frame[r].request_id)
                      /\ {sent[r][i].payload[k].tags[t][1] :
                             t \in 1..Len(sent[r][i].payload[k].tags)}
                            \subseteq {"model_name", "service", "env"}

\* a failed request whose envelope and error log entry carry its id
C16_Witness ==
    \E r \in Requests :
        /\ Dispatching(r) /\ http[r].status = 500
        /\ ResponseCarriesId(r)
        /\ LogEntries(r) # {} /\ LogCarriesId(r)
        /\ MetricPayloads(r) # {}

\* where numbers start in a text: at a digit, or at a point before a digit
NumberStarts(s) ==
    {i \in 1..Len(s) :
        \/ IsDigit(s[i])
        \/ s[i] = "." /\ i + 1 <= Len(s) /\ IsDigit(s[i+1])}

\* the first number of a text as a reader takes it: the leftmost run of
\* digits with at most one point inside or in front
FirstNumber(s) ==
    LET i == CHOOSE a \in NumberStarts(s) : \A b \in NumberStarts(s) : a <= b
    IN  IF s[i] = "." THEN SubSeq(s, i, DigitRunEnd(s, i + 1))
        ELSE SubSeq(s, i, NumberRunEnd(s, i, FALSE))

\* the digits in front of the point of a number
IntegerPart(t) ==
    LET dots == {i \in 1..Len(t) : t[i] = "."}
    IN  IF dots = {} THEN t ELSE SubSeq(t, 1, (CHOOSE i \in dots : TRUE) - 1)

\* the reply has a first number and its value is in [0,1]
FirstNumberInUnitInterval ==
    /\ probe.reply.kind = "ok"
    /\ NumberStarts(probe.reply.text) # {}
    /\ RLe(Float(FirstNumber(probe.reply.text)), One)

ConfidenceExamples ==
    /\ probe.reply.text = <<"0",".","8">> => probe.out.value = Rat(8, 10)
    /\ probe.reply.text = <<"I","'","d"," ","s","a","y"," ","a","b","o","u","t"," ","0",".","6","5"," ","c","o","n","f","i","d","e","n","t">> => probe.out.value = Rat(65, 100)
    /\ probe.reply.text = <<"v","e","r","y"," ","c","o","n","f","i","d","e","n","t">> => probe.out.value = Half
    /\ NumberStarts(probe.reply.text) = {} => probe.out.value = Half

\* C17 as stated: "0.8" gives 0.8, "I'd say about 0.65 confident" gives
\* 0.65, "very confident" gives 0.5, and whenever the first number of the
\* reply is in [0,1] the value returned is that number.
C17_AsStated ==
    (ConfDone /\ probe.reply.kind = "ok") =>
        /\ ConfidenceExamples
        /\ FirstNumberInUnitInterval =>
              probe.out.value = Float(FirstNumber(probe.reply.text))

\* C17: the three examples, 0.5 for a reply without a number, and
\* whenever the first number of the reply is in [0,1] and written without
\* a superfluous leading zero (at most one digit before the point), the
\* value returned is that number.
C17_FirstNumberReturned ==
    (ConfDone /\ probe.reply.kind = "ok") =>
        /\ ConfidenceExamples
        /\ (/\ FirstNumberInUnitInterval
            /\ Len(IntegerPart(FirstNumber(probe.reply.text))) <= 1) =>
              probe.out.value = Float(FirstNumber(probe.reply.text))

\* the number 0.65 found inside a sentence
C17_Witness ==
    /\ ConfDone
    /\ probe.reply.kind = "ok"
    /\ probe.reply.text = <<"I","'","d"," ","s","a","y"," ","a","b","o","u","t"," ","0",".","6","5"," ","c","o","n","f","i","d","e","n","t">>
    /\ probe.out.value = Rat(65, 100)

(***************************************************************************)
(* The risk against its reference formula  (checked under SpecRisk)        *)
(***************************************************************************)
clamp01(x) == IF RLt(x, Zero) THEN Zero ELSE IF RLt(One, x) THEN One ELSE x

\* clamp01(0.4*clamp01(1-c) + 0.3*clamp01(h/5) + 0.3*clamp01((w/max(pw,1))/50))
\* for h distinct phrases, w response words and pw prompt words
ReferenceRisk(c, h, w, pw) ==
    clamp01(RAdd(RAdd(RMul(Rat(4, 10), clamp01(RSub(One, c))),
                      RMul(Rat(3, 10), clamp01(Rat(h, 5)))),
                 RMul(Rat(3, 10),
                      clamp01(RMul(Rat(w, AtLeastOne(pw)), Rat(1, 50))))))

\* scenario 1: "What is the capital of France?", "Paris.", confidence 0.9
FranceExample ==
    /\ RiskDone
    /\ probe.prompt.text = PromptFrance
    /\ probe.response.text = TextParis
    /\ probe.confidence = Rat(9, 10)

\* C18: for a confidence in [0,1] the computed risk equals the reference
\* formula over the number of distinct vocabulary phrases contained in the
\* lower-cased response (a repeated phrase counts once) and the two word
\* counts; the France/"Paris."/0.9 example gives a risk below 0.3.
C18_RiskEqualsReference ==
    RiskDone =>
        /\ probe.out = ReferenceRisk(probe.confidence, probe.response.h,
                                     probe.response.w, probe.prompt.pw)
        /\ FranceExample => RLt(probe.out, Rat(3, 10))

\* the example computed, and a response that repeats one phrase four times
\* among the inputs
C18_Witness ==
    /\ FranceExample
    /\ probe.out = Rat(41, 1000)
    /\ \E t \in RiskTexts :
          /\ t.h = 1
          /\ hedging_count_occurrences(t.text) = 4
          /\ RiskOf[t, probe.prompt, probe.confidence]
                = ReferenceRisk(probe.confidence, 1, t.w, probe.prompt.pw)

(***************************************************************************)
(* Two requests handled at the same time: Flask runs chat() once for every *)
(* request, each run with its own locals  (src/main.py:189-288)            *)
(***************************************************************************)
\* two prompts of one word each with the same digest, and two completions
\* with the same word count, phrase count and token count
PromptAa == <<"A","a">>
PromptBB == <<"B","B">>
TextLyon == <<"L","y","o","n",".">>

ConcBodies ==
    {[json |-> FALSE, has_prompt |-> FALSE, prompt |-> <<>>],
     [json |-> TRUE,  has_prompt |-> FALSE, prompt |-> <<>>],
     [json |-> TRUE,  has_prompt |-> TRUE,  prompt |-> PromptAa],
     [json |-> TRUE,  has_prompt |-> TRUE,  prompt |-> PromptBB]}

ConcParseErrors == {"415 Unsupported Media Type"}

ConcGenerations ==
    {[kind |-> "raise", msg |-> "503 Service Unavailable", text |-> <<>>,
      has_usage |-> FALSE, total_token_count |-> 0],
     [kind |-> "ok", msg |-> "", text |-> TextParis,
      has_usage |-> TRUE, total_token_count |-> 9],
     [kind |-> "ok", msg |-> "", text |-> TextLyon,
      has_usage |-> TRUE, total_token_count |-> 9]}

ConcConfidences ==
    {[kind |-> "raise", msg |-> "429 Resource exhausted", text |-> <<>>],
     [kind |-> "ok", msg |-> "", text |-> <<"0",".","8">>]}

\* the steps of the handler of request r over these inputs
HandleConc(r) ==
    \/ \E b \in ConcBodies, id \in UUIDs, msg \in ConcParseErrors :
          ReceiveNoJson(r, b, id, msg)
    \/ \E b \in ConcBodies, id \in UUIDs : ReceiveNoPrompt(r, b, id)
    \/ \E b \in ConcBodies, id \in UUIDs : ReceivePrompt(r, b, id)
    \/ CallGenerate(r)
    \/ \E out \in ConcGenerations : ReturnGenerate(r, out)
    \/ \E reply \in ConcConfidences : EstimateConfidence(r, reply)
    \/ Score(r)
    \/ \E ok \in BOOLEAN : SendMetrics(r, ok)
    \/ \E ok \in BOOLEAN : SendLogs(r, ok)
    \/ Respond(r)
    \/ \E ok \in BOOLEAN : HandleError(r, ok)
    \/ \E ok \in BOOLEAN : SendErrorMetric(r, ok)

\* time passes while a request waits for the model
MaxClockConc == 1

TickConc ==
    /\ now < MaxClockConc
    /\ \E r \in Requests : pc[r] = "awaiting"
    /\ now' = now + 1
    /\ UNCHANGED <<pc, frame, calls, sent, http, issued, probe>>

\* any interleaving of the steps of the requests
NextConc == (\E r \in Requests : HandleConc(r)) \/ TickConc

SpecConc == Init /\ [][NextConc]_vars

(***************************************************************************)
(* What the telemetry tells of the texts  (checked under SpecConc)         *)
(***************************************************************************)
\* a log payload without the request id and the latency
EraseLog(p) ==
    [p EXCEPT !.message = <<p.message[1]>>,
              !.fields = [k \in DOMAIN p.fields \ {"request_id", "latency_ms"}
                             |-> p.fields[k]]]

\* a metric series without its timestamp, and without its value when it is
\* the latency
EraseSeries(series) ==
    [series EXCEPT !.timestamp = 0,
                   !.value = IF series.metric = "llm.request.latency_ms"
                             THEN Zero ELSE @]

\* the payloads r dispatched, in order, less request id and timing
ErasedTelemetry(r) ==
    [k \in 1..Len(sent[r]) |->
        IF sent[r][k].sink = "logs"
        THEN [sink |-> "logs", payload |-> EraseLog(sent[r][k].payload)]
        ELSE [sink |-> "metrics",
              payload |-> [i \in 1..Len(sent[r][k].payload) |->
                              EraseSeries(sent[r][k].payload[i])]]]

\* r has made its two dispatches
Dispatched(r) == pc[r] \in {"responding", "done"} /\ Len(sent[r]) = 2

\* both requests on the success path, their prompts with the same digest and
\* word count, their completions with the same scores and lengths
SameScores(r1, r2) ==
    /\ Dispatched(r1) /\ Dispatched(r2)
    /\ PrimaryOutcome(r1) = "ok" /\ PrimaryOutcome(r2) = "ok"
    /\ hash_prompt(frame[r1].prompt) = hash_prompt(frame[r2].prompt)
    /\ WordCount(frame[r1].prompt) = WordCount(frame[r2].prompt)
    /\ frame[r1].confidence_score = frame[r2].confidence_score
    /\ frame[r1].hallucination_risk = frame[r2].hallucination_risk
    /\ WordCount(frame[r1].response_text) = WordCount(frame[r2].response_text)
    /\ frame[r1].token_count = frame[r2].token_count

\* both requests on the failure path with the same error
SameError(r1, r2) ==
    /\ Dispatched(r1) /\ Dispatched(r2)
    /\ PrimaryOutcome(r1) # "ok" /\ PrimaryOutcome(r2) # "ok"
    /\ frame[r1].e = frame[r2].e

\* the keys of the records handed to the log sink
LogKeys ==
    {"request_id", "prompt_hash", "model_name", "latency_ms",
     "hallucination_risk", "self_confidence", "answer_length", "status",
     "error"}

\* C19: no payload handed to the metrics sink or the log sink carries the
\* prompt or the response: the log entries have only the keys of the
\* telemetry record, and two requests whose prompts have the same digest and
\* word count and whose completions have the same scores and lengths, or
\* which fail with the same error, dispatch payloads that differ in the
\* request id and the timing only.
C19_TelemetryHidesText ==
    /\ \A r \in Requests : \A i \in LogEntries(r) :
          DOMAIN sent[r][i].payload.fields \subseteq LogKeys
    /\ \A r1, r2 \in Requests :
          (SameScores(r1, r2) \/ SameError(r1, r2)) =>
              ErasedTelemetry(r1) = ErasedTelemetry(r2)

\* two different prompts with one digest, two different completions with
\* the same scores, different latencies: the same telemetry but for the
\* request id and the timing
C19_Witness ==
    /\ SameScores("r1", "r2")
    /\ frame["r1"].prompt # frame["r2"].prompt
    /\ frame["r1"].response_text # frame["r2"].response_text
    /\ frame["r1"].latency_ms # frame["r2"].latency_ms
    /\ sent["r1"][2].payload # sent["r2"][2].payload
    /\ ErasedTelemetry("r1") = ErasedTelemetry("r2")

(***************************************************************************)
(* Requests handled at the same time  (checked under SpecConc)             *)
(***************************************************************************)
\* what the model answered to a call
ModelReply(call) ==
    [kind |-> call.returned, msg |-> call.msg, text |-> call.text]

\* the confidence and the risk of r worked out from its own prompt and from
\* the replies the model gave to it
AloneConfidence(r) == get_self_confidence(ModelReply(calls[r][2])).value

AloneRisk(r) ==
    calculate_hallucination_risk(calls[r][1].text, frame[r].request.prompt,
                                 AloneConfidence(r))

\* the status of r handled alone: 500 without a JSON body, 400 without a
\* prompt, 200 when the model answered and 500 when it did not
AloneStatus(r) ==
    LET body == frame[r].request
    IN  IF ~body.json THEN 500
        ELSE IF (IF body.has_prompt THEN body.prompt ELSE <<>>) = <<>>
        THEN 400
        ELSE IF PrimaryOutcome(r) = "ok" THEN 200 ELSE 500

\* the response and the telemetry of r are those of r handled alone
AsIfAlone(r) ==
    /\ http[r].status = AloneStatus(r)
    /\ AloneStatus(r) = 400 => calls[r] = <<>> /\ sent[r] = <<>>
    /\ AloneStatus(r) = 200 =>
          /\ http[r].body.request_id = frame[r].request_id
          /\ http[r].body.response = calls[r][1].text
          /\ http[r].body.metadata.confidence = Round(AloneConfidence(r), 3)
          /\ http[r].body.metadata.hallucination_risk = Round(AloneRisk(r), 3)
          /\ http[r].body.metadata.model = MODEL_NAME
          /\ Len(sent[r]) = 2 /\ SuccessTelemetry(r)
          /\ sent[r][1].payload[2].value = AloneConfidence(r)
          /\ sent[r][1].payload[3].value = AloneRisk(r)
          /\ \A k \in 1..5 :
                sent[r][1].payload[k].tags =
                    << <<"model_name", MODEL_NAME>>,
                       <<"service", SERVICE_NAME>>, <<"env", ENVIRONMENT>> >>
          /\ LET fields == sent[r][2].payload.fields
             IN  /\ fields.request_id = frame[r].request_id
                 /\ fields.prompt_hash = hash_prompt(frame[r].request.prompt)
                 /\ fields.model_name = MODEL_NAME
                 /\ fields.self_confidence = Str(AloneConfidence(r))
                 /\ fields.hallucination_risk = Str(AloneRisk(r))
                 /\ fields.status = "success"
    /\ AloneStatus(r) = 500 =>
          /\ http[r].body.request_id = frame[r].request_id
          /\ IF frame[r].request.json
             THEN http[r].body.error = calls[r][1].msg
             ELSE http[r].body.error \in ConcParseErrors
          /\ Len(sent[r]) = 2 /\ FailureTelemetry(r)
          /\ sent[r][1].payload.fields.request_id = frame[r].request_id
          /\ sent[r][1].payload.fields.error = http[r].body.error
          /\ sent[r][2].payload[1].tags =
                << <<"service", SERVICE_NAME>>, <<"env", ENVIRONMENT>> >>

\* the requests that were received
Received == {r \in Requests : pc[r] # "idle"}

\* a step of one request leaves the id of a received request, and all the
\* values of the other requests, as they are
StepIsLocal ==
    \A q \in Requests :
        /\ q \in Received => frame'[q].request_id = frame[q].request_id
        /\ pc'[q] = pc[q] =>
              /\ frame'[q] = frame[q] /\ calls'[q] = calls[q]
              /\ sent'[q] = sent[q] /\ http'[q] = http[q]

\* C20: however the steps of the requests interleave, every request ends
\* with the response and the telemetry (request id, prompt hash, confidence,
\* risk, status) it has when handled alone with the same replies of the
\* model; the requests have different ids, a step of one request changes no
\* value of another, and the model name, the service name and the
\* environment in every payload are those of the configuration.
C20_RequestsIndependent ==
    /\ [](/\ \A r \in Requests : Done(r) => AsIfAlone(r)
          /\ \A r1, r2 \in Received :
                r1 # r2 => frame[r1].request_id # frame[r2].request_id)
    /\ [][StepIsLocal]_vars

\* two requests in flight over the same tick of the clock, both answered,
\* with different prompts, completions and confidences
C20_Witness ==
    /\ Succeeded("r1") /\ Succeeded("r2")
    /\ frame["r1"].start_time = 0 /\ frame["r1"].end_time = 1
    /\ frame["r2"].start_time = 0 /\ frame["r2"].end_time = 1
    /\ frame["r1"].prompt # frame["r2"].prompt
    /\ calls["r1"][1].text # calls["r2"][1].text
    /\ frame["r1"].confidence_score # frame["r2"].confidence_score
    /\ AsIfAlone("r1") /\ AsIfAlone("r2")

=============================================================================
